---- MODULE Spec2Model ----
(***************************************************************************)
(* A model of dof's treasure-map engine (src/src/dof/api.py): the          *)
(* .treasureignore matcher, document discovery and the reconciliation pass *)
(* create_or_update_treasure_map, run against a workbook that persists     *)
(* between passes.                                                         *)
(*                                                                         *)
(* Python strings are sequences of one-character strings, so that lower(), *)
(* split(), strip() and glob matching are computed and not assumed.        *)
(* A file's content is named by its SHA-256 digest ("H1", "H2").           *)
(* The passes write the XLSX workbook (OutputFormat.XLSX, the default).    *)
(***************************************************************************)
EXTENDS Integers, Sequences, FiniteSets, TLC

\* ------------------------------------------------------------------ bounds

\* Passes per behaviour (the version of a record grows with every Updated pass).
MaxPasses == 3
\* The dates a pass can be given as `today` are 1..MaxDay.
MaxDay == 2

\* The longest line of a rule file of which every content is looked at.
MaxLine == 3

\* ------------------------------------------------------------ Python values

\* Python's None where a digest is expected.
None == "None"

\* The digests a readable file can have.
Contents == {"H1", "H2"}
\* On disk a document is absent, readable with some content, or present but
\* unreadable (locked / cloud placeholder: _sha256_file raises OSError).
Absent == "absent"
Locked == "locked"
FileStates == {Absent, Locked} \cup Contents

Days == 1..MaxDay

\* The documents that can exist under root_dir (all have a document suffix).
LocLowerA == <<"a", ".", "p", "d", "f">>
LocUpperA == <<"A", ".", "p", "d", "f">>
Locations == {LocLowerA, LocUpperA}

\* ----------------------------------------------------------------- strings

\* Code points of the characters the model's strings are made of.
Ord(c) ==
    CASE c = " " -> 32  [] c = "!" -> 33  [] c = "#" -> 35  [] c = "*" -> 42
      [] c = "+" -> 43  [] c = "-" -> 45  [] c = "." -> 46  [] c = "/" -> 47
      [] c = "0" -> 48  [] c = "1" -> 49  [] c = "2" -> 50  [] c = "3" -> 51
      [] c = "4" -> 52  [] c = "5" -> 53  [] c = "6" -> 54  [] c = "7" -> 55
      [] c = "8" -> 56  [] c = "9" -> 57  [] c = "?" -> 63
      [] c = "A" -> 65  [] c = "B" -> 66  [] c = "C" -> 67
      [] c = "\\" -> 92
      [] c = "a" -> 97  [] c = "b" -> 98  [] c = "c" -> 99  [] c = "d" -> 100
      [] c = "e" -> 101 [] c = "f" -> 102 [] c = "k" -> 107 [] c = "o" -> 111
      [] c = "p" -> 112 [] c = "r" -> 114 [] c = "t" -> 116 [] c = "u" -> 117
      [] c = "x" -> 120

\* str.lower() on one character.
LowerChar(c) ==
    CASE c = "A" -> "a" [] c = "B" -> "b" [] c = "C" -> "c" [] OTHER -> c

\* str.lower()
Lower(s) == [i \in 1..Len(s) |-> LowerChar(s[i])]

\* Python's s < t on strings: lexicographic by code point.
RECURSIVE StrLess(_, _)
StrLess(s, t) ==
    IF t = <<>> THEN FALSE
    ELSE IF s = <<>> THEN TRUE
    ELSE IF Ord(s[1]) # Ord(t[1]) THEN Ord(s[1]) < Ord(t[1])
    ELSE StrLess(Tail(s), Tail(t))

\* The sort key of every persisted listing: key=lambda s: s.lower()
SortKey(loc) == Lower(loc)

\* list.sort / sorted are stable: insert x after every element whose key is
\* not greater than x's.
RECURSIVE InsertByKey(_, _)
InsertByKey(sorted, x) ==
    IF sorted = <<>> THEN <<x>>
    ELSE IF StrLess(SortKey(x), SortKey(sorted[1]))
         THEN <<x>> \o sorted
         ELSE <<sorted[1]>> \o InsertByKey(Tail(sorted), x)

\* sorted(keys, key=lambda s: s.lower())
RECURSIVE SortedByLower(_)
SortedByLower(keys) ==
    IF keys = <<>> THEN <<>>
    ELSE InsertByKey(SortedByLower(SubSeq(keys, 1, Len(keys) - 1)), keys[Len(keys)])

\* str.strip() (whitespace is the space character here)
RECURSIVE LStrip(_)
LStrip(s) == IF s # <<>> /\ s[1] = " " THEN LStrip(Tail(s)) ELSE s

RECURSIVE RStrip(_)
RStrip(s) ==
    IF s # <<>> /\ s[Len(s)] = " " THEN RStrip(SubSeq(s, 1, Len(s) - 1)) ELSE s

Strip(s) == RStrip(LStrip(s))

\* str.split(sep) for a one-character separator: always at least one field.
RECURSIVE Split(_, _)
Split(s, sep) ==
    IF \A i \in 1..Len(s) : s[i] # sep THEN <<s>>
    ELSE LET k == CHOOSE i \in 1..Len(s) :
                      s[i] = sep /\ \A j \in 1..(i - 1) : s[j] # sep
         IN <<SubSeq(s, 1, k - 1)>> \o Split(SubSeq(s, k + 1, Len(s)), sep)

Digits == {"0", "1", "2", "3", "4", "5", "6", "7", "8", "9"}

RECURSIVE DigitsValue(_)
DigitsValue(s) ==
    IF s = <<>> THEN 0
    ELSE 10 * DigitsValue(SubSeq(s, 1, Len(s) - 1)) + (Ord(s[Len(s)]) - Ord("0"))

\* The body of an integer literal: the text after the optional sign.
Unsigned(s) ==
    LET t == Strip(s)
    IN IF t # <<>> /\ t[1] \in {"+", "-"} THEN Tail(t) ELSE t

\* Whether int(s) succeeds (it raises ValueError otherwise): surrounding
\* whitespace, an optional sign, decimal digits.
IsIntLiteral(s) ==
    Unsigned(s) # <<>> /\ \A i \in 1..Len(Unsigned(s)) : Unsigned(s)[i] \in Digits

\* int(s) where it succeeds.
PyInt(s) ==
    IF Strip(s)[1] = "-" THEN 0 - DigitsValue(Unsigned(s))
    ELSE DigitsValue(Unsigned(s))

\* str(n) for an integer (the {major} and {minor} of the f-string).
RECURSIVE NatToStr(_)
NatToStr(n) ==
    LET d == <<"0", "1", "2", "3", "4", "5", "6", "7", "8", "9">>[(n % 10) + 1]
    IN IF n < 10 THEN <<d>> ELSE NatToStr(n \div 10) \o <<d>>

IntToStr(n) == IF n < 0 THEN <<"-">> \o NatToStr(0 - n) ELSE NatToStr(n)

\* ---------------------------------------------------------------- versions

\* None in a cell that otherwise holds text.
NoneStr == <<"None">>

\* _parse_version: (major, minor), defaulting to (1, 0) when unparseable.
parse_version(v) ==
    IF v = NoneStr THEN <<1, 0>>
    ELSE LET m == Split(Strip(v), ".")
         IN IF ~IsIntLiteral(m[1]) THEN <<1, 0>>
            ELSE IF Len(m) > 1 /\ ~IsIntLiteral(m[2]) THEN <<1, 0>>
            ELSE <<PyInt(m[1]), IF Len(m) > 1 THEN PyInt(m[2]) ELSE 0>>

\* A bump that resets the minor component instead of incrementing it.
bump_version_reset(v) ==
    IntToStr(parse_version(v)[1]) \o <<".">> \o IntToStr(1)

\* _bump_version: f"{major}.{minor + 1}"
bump_version(v) ==
    LET p == parse_version(v)
    IN IntToStr(p[1]) \o <<".">> \o IntToStr(p[2] + 1)

\* The version a new row is given: "1.0"
InitialVersion == <<"1", ".", "0">>

\* A _hash_changed that takes a digest that can no longer be computed as a change.
hash_changed_unreadable(old, new) == old # new

\* A _hash_changed that takes a digest appearing for the first time as a change.
hash_changed_eager(old, new) == IF new = None THEN FALSE ELSE old # new

\* A _hash_changed that never takes a change as proven.
hash_changed_never(old, new) == FALSE

\* _hash_changed: True only when a content change is proven.
hash_changed(old, new) ==
    IF new = None THEN FALSE
    ELSE IF old = None THEN FALSE
    ELSE old # new

\* --------------------------------------------------------- .treasureignore

\* fnmatch.fnmatchcase on one path segment: * is any run of characters,
\* ? is any one character, every other character stands for itself.
RECURSIVE fnmatchcase(_, _)
fnmatchcase(name, pat) ==
    IF pat = <<>> THEN name = <<>>
    ELSE IF pat[1] = "*"
         THEN fnmatchcase(name, Tail(pat))
              \/ (name # <<>> /\ fnmatchcase(Tail(name), pat))
    ELSE /\ name # <<>>
         /\ (pat[1] = "?" \/ pat[1] = name[1])
         /\ fnmatchcase(Tail(name), Tail(pat))

\* PurePosixPath(s).parts without the root: the segments between slashes,
\* empty segments and "." dropped.
PathParts(s) ==
    SelectSeq(Split(s, "/"), LAMBDA seg : seg # <<>> /\ seg # <<".">>)

\* Whether PurePosixPath(s) has a root.
HasRoot(s) == s # <<>> /\ s[1] = "/"

\* The segments of a path joined back into text: PurePosixPath(*parts).
RECURSIVE JoinParts(_)
JoinParts(parts) ==
    IF parts = <<>> THEN <<>>
    ELSE IF Len(parts) = 1 THEN parts[1]
    ELSE parts[1] \o <<"/">> \o JoinParts(Tail(parts))

\* PurePath.match raises ValueError("empty pattern") on a pattern with no parts.
match_raises(pattern) == PathParts(pattern) = <<>> /\ ~HasRoot(pattern)

\* PurePosixPath(path).match(pattern) for a relative path, where it returns
\* (see match_raises): a rooted pattern never matches it; a relative pattern
\* is matched from the right, segment by segment ("**" is matched like "*").
match(path, pattern) ==
    LET parts == PathParts(path)
        pat_parts == PathParts(pattern)
        n == Len(parts)
        k == Len(pat_parts)
    IN /\ ~HasRoot(pattern)
       /\ k > 0
       /\ k <= n
       /\ \A i \in 1..k : fnmatchcase(parts[n - k + i], pat_parts[i])

\* IgnoreRule
IgnoreRule(pattern, negated, dir_only, root_anchored) ==
    [pattern |-> pattern, negated |-> negated, dir_only |-> dir_only,
     root_anchored |-> root_anchored]

\* str.startswith / str.endswith for a one-character affix.
StartsWith(s, c) == s # <<>> /\ s[1] = c
EndsWith(s, c) == s # <<>> /\ s[Len(s)] = c

\* The rule one line of .treasureignore yields, as a list of zero or one rule.
ParseIgnoreLine(raw) ==
    LET line0 == Strip(raw)
        neg == StartsWith(line0, "!")
        line1 == IF neg THEN Strip(Tail(line0)) ELSE line0
        root_anchored == StartsWith(line1, "/")
        line2 == IF root_anchored THEN Tail(line1) ELSE line1
        dir_only == EndsWith(line2, "/")
        line3 == IF dir_only THEN Strip(SubSeq(line2, 1, Len(line2) - 1)) ELSE line2
    IN IF line0 = <<>> THEN <<>>
       ELSE IF StartsWith(line0, "#") THEN <<>>
       ELSE IF neg /\ line1 = <<>> THEN <<>>
       ELSE IF dir_only /\ line3 = <<>> THEN <<>>
       ELSE <<IgnoreRule(line3, neg, dir_only, root_anchored)>>

\* A byte that is no valid UTF-8, and the character U+FFFD that
\* read_text(encoding="utf-8", errors="replace") puts in its place.
InvalidByte == "xFF"
ReplacementChar == "uFFFD"

\* read_text(encoding="utf-8", errors="replace").splitlines() on the lines
\* of the file as bytes.
ReadText(lines) ==
    [i \in 1..Len(lines) |->
        [j \in 1..Len(lines[i]) |->
            IF lines[i][j] = InvalidByte THEN ReplacementChar ELSE lines[i][j]]]

RECURSIVE ParseIgnoreLines(_)
ParseIgnoreLines(lines) ==
    IF lines = <<>> THEN <<>>
    ELSE ParseIgnoreLine(lines[1]) \o ParseIgnoreLines(Tail(lines))

\* _load_treasureignore: the rules of root_dir/.treasureignore. No file and
\* no rules both give None, which every caller treats like the empty list.
load_treasureignore(ignore_file) ==
    IF ~ignore_file.exists THEN <<>>
    ELSE IF ~ignore_file.readable THEN <<>>
    ELSE ParseIgnoreLines(ReadText(ignore_file.lines))

\* A _rule_matches whose directory rules all go through pat + "/**".
rule_matches_one_level(rel_posix, rule) ==
    LET pat == rule.pattern
    IN IF rule.root_anchored
       THEN IF rule.dir_only
            THEN match(rel_posix, pat \o <<"/", "*", "*">>) \/ match(rel_posix, pat)
            ELSE (\A i \in 1..Len(rel_posix) : rel_posix[i] # "/")
                 /\ match(rel_posix, pat)
       ELSE IF rule.dir_only
            THEN match(rel_posix, pat \o <<"/", "*", "*">>) \/ match(rel_posix, pat)
       ELSE IF \E i \in 1..Len(pat) : pat[i] = "/"
            THEN match(rel_posix, pat)
       ELSE match(rel_posix, pat) \/ match(rel_posix, <<"*", "*", "/">> \o pat)

\* A _rule_matches whose root-anchored rules do not look for "/" in the path.
rule_matches_anchor_unchecked(rel_posix, rule) ==
    LET pat == rule.pattern
        parts == PathParts(rel_posix)
    IN IF rule.root_anchored
       THEN IF rule.dir_only
            THEN match(rel_posix, pat \o <<"/", "*", "*">>) \/ match(rel_posix, pat)
            ELSE match(rel_posix, pat)
       ELSE IF rule.dir_only
            THEN IF \E i \in 1..Len(pat) : pat[i] = "/"
                 THEN match(rel_posix, pat \o <<"/", "*", "*">>) \/ match(rel_posix, pat)
                 ELSE \E i \in 1..Len(parts) :
                          match(JoinParts(SubSeq(parts, 1, i)), pat)
       ELSE IF \E i \in 1..Len(pat) : pat[i] = "/"
            THEN match(rel_posix, pat)
       ELSE match(rel_posix, pat) \/ match(rel_posix, <<"*", "*", "/">> \o pat)

\* A _rule_matches whose plain patterns with no "/" match files of the root
\* only.
rule_matches_plain_at_root(rel_posix, rule) ==
    LET pat == rule.pattern
        parts == PathParts(rel_posix)
    IN IF rule.root_anchored
       THEN IF rule.dir_only
            THEN match(rel_posix, pat \o <<"/", "*", "*">>) \/ match(rel_posix, pat)
            ELSE (\A i \in 1..Len(rel_posix) : rel_posix[i] # "/")
                 /\ match(rel_posix, pat)
       ELSE IF rule.dir_only
            THEN IF \E i \in 1..Len(pat) : pat[i] = "/"
                 THEN match(rel_posix, pat \o <<"/", "*", "*">>) \/ match(rel_posix, pat)
                 ELSE \E i \in 1..Len(parts) :
                          match(JoinParts(SubSeq(parts, 1, i)), pat)
       ELSE IF \E i \in 1..Len(pat) : pat[i] = "/"
            THEN match(rel_posix, pat)
       ELSE Len(parts) = 1 /\ match(rel_posix, pat)

\* _rule_matches
rule_matches(rel_posix, rule) ==
    LET pat == rule.pattern
        parts == PathParts(rel_posix)
    IN IF rule.root_anchored
       THEN IF rule.dir_only
            THEN match(rel_posix, pat \o <<"/", "*", "*">>) \/ match(rel_posix, pat)
            ELSE (\A i \in 1..Len(rel_posix) : rel_posix[i] # "/")
                 /\ match(rel_posix, pat)
       ELSE IF rule.dir_only
            THEN IF \E i \in 1..Len(pat) : pat[i] = "/"
                 THEN match(rel_posix, pat \o <<"/", "*", "*">>) \/ match(rel_posix, pat)
                 ELSE \E i \in 1..Len(parts) :
                          match(JoinParts(SubSeq(parts, 1, i)), pat)
       ELSE IF \E i \in 1..Len(pat) : pat[i] = "/"
            THEN match(rel_posix, pat)
       ELSE match(rel_posix, pat) \/ match(rel_posix, <<"*", "*", "/">> \o pat)

\* The loop of _is_ignored from a given value of `ignored`.
RECURSIVE is_ignored_loop(_, _, _)
is_ignored_loop(rel_posix, rules, ignored) ==
    IF rules = <<>> THEN ignored
    ELSE is_ignored_loop(rel_posix, Tail(rules),
                         IF rule_matches(rel_posix, rules[1])
                         THEN ~rules[1].negated ELSE ignored)

\* An _is_ignored whose first matching rule decides.
RECURSIVE is_ignored_first_match(_, _)
is_ignored_first_match(rel_posix, rules) ==
    IF rules = <<>> THEN FALSE
    ELSE IF rule_matches(rel_posix, rules[1]) THEN ~rules[1].negated
    ELSE is_ignored_first_match(rel_posix, Tail(rules))

\* _is_ignored: every matching rule overwrites the answer, so the last one
\* decides; no rules (or None), not ignored.
is_ignored(rel_posix, rules) ==
    IF rules = <<>> THEN FALSE ELSE is_ignored_loop(rel_posix, rules, FALSE)

\* Whether _rule_matches raises ValueError: some p.match it reaches, in the
\* order of evaluation ("and" and "or" stop at the first operand that
\* decides), is given a pattern with no segment.
rule_matches_raises(rel_posix, rule) ==
    LET pat == rule.pattern
        parts == PathParts(rel_posix)
    IN IF rule.root_anchored
       THEN IF rule.dir_only
            THEN ~match(rel_posix, pat \o <<"/", "*", "*">>) /\ match_raises(pat)
            ELSE (\A i \in 1..Len(rel_posix) : rel_posix[i] # "/")
                 /\ match_raises(pat)
       ELSE IF rule.dir_only
            THEN IF \E i \in 1..Len(pat) : pat[i] = "/"
                 THEN ~match(rel_posix, pat \o <<"/", "*", "*">>) /\ match_raises(pat)
                 ELSE parts # <<>> /\ match_raises(pat)
       ELSE match_raises(pat)

\* Whether _is_ignored raises: its loop calls _rule_matches on every rule.
is_ignored_raises(rel_posix, rules) ==
    \E i \in 1..Len(rules) : rule_matches_raises(rel_posix, rules[i])

\* str.replace("\\", "/")
BackslashToSlash(s) == [i \in 1..Len(s) |-> IF s[i] = "\\" THEN "/" ELSE s[i]]

\* ---------------------------------------------------------------- discovery

\* FoundFile (abs_path, filename, suffix and file_type follow from the
\* location and are left out).
FoundFile(loc, sha) == [rel_location |-> loc, sha256 |-> sha]

\* _safe_sha256_file: the digest, or None when the file cannot be read.
safe_sha256_file(state) == IF state = Locked THEN None ELSE state

\* The directory of a location, as its segments.
DirOf(loc) == SubSeq(PathParts(loc), 1, Len(PathParts(loc)) - 1)

IsProperPrefix(a, b) == Len(a) < Len(b) /\ SubSeq(b, 1, Len(a)) = a

\* The orders in which Path.walk() can yield the documents on disk: top-down,
\* a directory's own files before those of the directories beneath it, files
\* of one directory in whatever order the file system lists them.
WalkOrders(files) ==
    {w \in [1..Cardinality(files) -> files] :
        /\ \A i, j \in DOMAIN w : i # j => w[i] # w[j]
        /\ \A i, j \in DOMAIN w :
               i < j => ~IsProperPrefix(DirOf(w[j]), DirOf(w[i]))}

\* The loop of discover_documents over one walk: ignored documents are
\* skipped, the others are hashed.
RECURSIVE FoundOnWalk(_, _, _)
FoundOnWalk(walk, files, ignore_rules) ==
    IF walk = <<>> THEN <<>>
    ELSE (IF is_ignored(walk[1], ignore_rules) THEN <<>>
          ELSE <<FoundFile(walk[1], safe_sha256_file(files[walk[1]]))>>)
         \o FoundOnWalk(Tail(walk), files, ignore_rules)

\* found.sort(key=lambda x: x.rel_location.lower()), a stable sort.
RECURSIVE InsertFound(_, _)
InsertFound(sorted, x) ==
    IF sorted = <<>> THEN <<x>>
    ELSE IF StrLess(SortKey(x.rel_location), SortKey(sorted[1].rel_location))
         THEN <<x>> \o sorted
         ELSE <<sorted[1]>> \o InsertFound(Tail(sorted), x)

RECURSIVE SortFound(_)
SortFound(found) ==
    IF found = <<>> THEN <<>>
    ELSE InsertFound(SortFound(SubSeq(found, 1, Len(found) - 1)), found[Len(found)])

\* discover_documents
discover_documents(files, ignore_file, walk) ==
    SortFound(FoundOnWalk(walk, files, load_treasureignore(ignore_file)))

\* ------------------------------------------------------------ the workbook

\* One row of the main sheet (File Name, File Type and Link follow from the
\* location and are left out).
Row(loc, description, date_found, last_seen, version) ==
    [Location |-> loc, Description |-> description, DateFound |-> date_found,
     LastSeen |-> last_seen, Version |-> version]

\* One row of the hidden _dof_meta sheet.
MetaRow(loc, sha) == [Location |-> loc, Sha256 |-> sha]

\* A Python dict keeps its keys in insertion order: it is the sequence of its
\* entries, each carrying its key as Location.
HasKey(d, loc) == \E i \in 1..Len(d) : d[i].Location = loc

Lookup(d, loc) == d[CHOOSE i \in 1..Len(d) : d[i].Location = loc]

\* d[e.Location] = e
Put(d, e) ==
    IF HasKey(d, e.Location)
    THEN [i \in 1..Len(d) |-> IF d[i].Location = e.Location THEN e ELSE d[i]]
    ELSE Append(d, e)

\* d.pop(loc, None)
Pop(d, loc) == SelectSeq(d, LAMBDA e : e.Location # loc)

\* list(d.keys())
Keys(d) == [i \in 1..Len(d) |-> d[i].Location]

\* _read_existing_rows / _read_meta: the rows of a sheet keyed by Location,
\* in sheet order.
RECURSIVE ReadSheet(_)
ReadSheet(ws) ==
    IF ws = <<>> THEN <<>>
    ELSE Put(ReadSheet(SubSeq(ws, 1, Len(ws) - 1)), ws[Len(ws)])

\* meta.get(loc)
MetaGet(meta, loc) == IF HasKey(meta, loc) THEN Lookup(meta, loc).Sha256 ELSE None

\* The rows of a dict as written to a sheet (the main sheet and _write_meta):
\* for loc in sorted(d.keys(), key=lambda s: s.lower()).
WriteSorted(d) ==
    LET order == SortedByLower(Keys(d))
    IN [i \in 1..Len(order) |-> Lookup(d, order[i])]

\* -------------------------------------------------------------- ScanResult

\* ChangeType
New == "new"
Updated == "updated"
Unchanged == "unchanged"
Deleted == "deleted"
Ignored == "ignored"

FileChange(loc, change_type, old_version, new_version) ==
    [location |-> loc, change_type |-> change_type,
     old_version |-> old_version, new_version |-> new_version]

\* ScanResult(total_found=n)
ScanResult(n) ==
    [total_found |-> n, new_files |-> <<>>, updated_files |-> <<>>,
     unchanged_files |-> <<>>, deleted_files |-> <<>>, ignored_files |-> <<>>,
     changes |-> <<>>]

\* The two appends that report one location.
Report(res, loc, change_type, old_version, new_version) ==
    LET listed ==
          CASE change_type = New -> [res EXCEPT !.new_files = Append(@, loc)]
            [] change_type = Updated -> [res EXCEPT !.updated_files = Append(@, loc)]
            [] change_type = Unchanged -> [res EXCEPT !.unchanged_files = Append(@, loc)]
            [] change_type = Deleted -> [res EXCEPT !.deleted_files = Append(@, loc)]
            [] change_type = Ignored -> [res EXCEPT !.ignored_files = Append(@, loc)]
    IN [listed EXCEPT !.changes =
            Append(@, FileChange(loc, change_type, old_version, new_version))]

\* ------------------------------------------------------ the reconciliation

\* str(v) of a cell value.
PyStr(v) == IF v = NoneStr THEN <<"N", "o", "n", "e">> ELSE v

\* A row whose Last Seen is left as it was.
SeenRow_stale(row, day) == row

\* A row whose Date Found is moved along with its Last Seen.
SeenRow_refound(row, day) == [row EXCEPT !.LastSeen = day, !.DateFound = day]

\* A row whose Last Seen moves a day on instead of being set to the date.
SeenRow_advance(row, day) == [row EXCEPT !.LastSeen = @ + 1]

\* row["Last Seen"] = today
SeenRow(row, day) == [row EXCEPT !.LastSeen = day]

\* A row rebuilt with the new version and an empty description.
VersionedRow_blank(row, new_version) ==
    [Location |-> row.Location, Description |-> <<>>, DateFound |-> row.DateFound,
     LastSeen |-> row.LastSeen, Version |-> new_version]

\* row["Version"] = new_version
VersionedRow(row, new_version) == [row EXCEPT !.Version = new_version]

\* A first row dated found the day after the pass's date.
NewRow_late(loc, day) ==
    [Location |-> loc, Description |-> <<>>, DateFound |-> day + 1,
     LastSeen |-> day, Version |-> InitialVersion]

\* The row of a document seen for the first time.
NewRow(loc, day) == Row(loc, <<>>, day, day, InitialVersion)

\* The locals a pass carries from step to step.
Locals(updated_rows, meta, result) ==
    [updated_rows |-> updated_rows, meta |-> meta, scan_result |-> result]

\* The body of `for f in found`, for one found file.
MergeFound(acc, f, existing_rows, day) ==
    LET loc == f.rel_location
        prev_sha == MetaGet(acc.meta, loc)
    IN IF HasKey(existing_rows, loc)
       THEN LET old_version == PyStr(Lookup(acc.updated_rows, loc).Version)
                row == SeenRow(Lookup(acc.updated_rows, loc), day)
            IN IF prev_sha = f.sha256
               THEN Locals(Put(acc.updated_rows, row), acc.meta,
                           Report(acc.scan_result, loc, Unchanged,
                                  old_version, old_version))
               ELSE IF hash_changed(prev_sha, f.sha256)
               THEN LET new_version == bump_version(row.Version)
                    IN Locals(Put(acc.updated_rows, VersionedRow(row, new_version)),
                              Put(acc.meta, MetaRow(loc, f.sha256)),
                              Report(acc.scan_result, loc, Updated,
                                     old_version, new_version))
               ELSE IF prev_sha = None /\ f.sha256 # None
               THEN Locals(Put(acc.updated_rows, row),
                           Put(acc.meta, MetaRow(loc, f.sha256)),
                           Report(acc.scan_result, loc, Unchanged,
                                  old_version, old_version))
               ELSE Locals(Put(acc.updated_rows, row), acc.meta,
                           Report(acc.scan_result, loc, Unchanged,
                                  old_version, old_version))
       ELSE Locals(Put(acc.updated_rows, NewRow(loc, day)),
                   Put(acc.meta, MetaRow(loc, f.sha256)),
                   Report(acc.scan_result, loc, New, NoneStr, InitialVersion))

\* for f in found: ...
RECURSIVE MergeAll(_, _, _, _)
MergeAll(acc, found, existing_rows, day) ==
    IF found = <<>> THEN acc
    ELSE MergeAll(MergeFound(acc, found[1], existing_rows, day),
                  Tail(found), existing_rows, day)

\* Dropping one location from the rows only, and reporting it.
Remove_row_only(acc, loc, change_type) ==
    Locals(Pop(acc.updated_rows, loc), acc.meta,
           Report(acc.scan_result, loc, change_type, NoneStr, NoneStr))

\* Dropping one location from the rows and the fingerprints, and reporting it.
Remove(acc, loc, change_type) ==
    Locals(Pop(acc.updated_rows, loc), Pop(acc.meta, loc),
           Report(acc.scan_result, loc, change_type, NoneStr, NoneStr))

\* The loop that removes what .treasureignore now ignores.
RECURSIVE ExclusionLoop(_, _, _)
ExclusionLoop(acc, keys, ignore_rules_map) ==
    IF keys = <<>> THEN acc
    ELSE ExclusionLoop(
             IF is_ignored(BackslashToSlash(keys[1]), ignore_rules_map)
             THEN Remove(acc, keys[1], Ignored) ELSE acc,
             Tail(keys), ignore_rules_map)

\* if ignore_rules_map: for loc in list(updated_rows.keys()): ...
ExclusionPass(acc, ignore_rules_map) ==
    IF ignore_rules_map # <<>>
    THEN ExclusionLoop(acc, Keys(acc.updated_rows), ignore_rules_map)
    ELSE acc

\* The loop that removes the rows of documents that were not found.
RECURSIVE PruneLoop(_, _, _)
PruneLoop(acc, keys, found_locs) ==
    IF keys = <<>> THEN acc
    ELSE PruneLoop(IF keys[1] \notin found_locs
                   THEN Remove(acc, keys[1], Deleted) ELSE acc,
                   Tail(keys), found_locs)

\* The pruning loop run whatever the flag says.
PrunePass_always(acc, found, prune) ==
    PruneLoop(acc, Keys(acc.updated_rows),
              {found[i].rel_location : i \in 1..Len(found)})

\* if prune_missing: for loc in list(updated_rows.keys()): ...
PrunePass(acc, found, prune) ==
    IF prune
    THEN PruneLoop(acc, Keys(acc.updated_rows),
                   {found[i].rel_location : i \in 1..Len(found)})
    ELSE acc

\* The two removal passes in the other order: missing files first.
Reconcile_prune_first(existing_rows, meta, found, ignore_rules_map, day, prune) ==
    ExclusionPass(
        PrunePass(
            MergeAll(Locals(existing_rows, meta, ScanResult(Len(found))),
                     found, existing_rows, day),
            found, prune),
        ignore_rules_map)

\* create_or_update_treasure_map up to the point where it writes: the merge
\* of the found files into the existing rows, then the two removal passes.
Reconcile(existing_rows, meta, found, ignore_rules_map, day, prune) ==
    PrunePass(
        ExclusionPass(
            MergeAll(Locals(existing_rows, meta, ScanResult(Len(found))),
                     found, existing_rows, day),
            ignore_rules_map),
        found, prune)

\* -------------------------------------------------------------------- state

VARIABLES
    sheet,            \* the workbook's main sheet: its rows below the header
    meta_sheet,       \* the workbook's hidden _dof_meta sheet: its rows
    found,            \* the latest pass: the documents it discovered,
    ignore_rules_map, \*   the rules it loaded from .treasureignore,
    today,            \*   its arguments
    prune_missing,
    dry_run,
    scan_result,      \*   and the ScanResult it built
    passes,           \* the passes run so far
    keep_missing,     \* the --keep-missing option of the command line run
    asked_file,       \* a .treasureignore and
    asked_path,       \*   a path put to the matcher on their own,
    answer,           \*   what it answered,
    raised            \*   or that it raised ValueError instead

asked == <<asked_file, asked_path, answer, raised>>

vars == <<sheet, meta_sheet, found, ignore_rules_map, today, prune_missing,
          dry_run, scan_result, passes, keep_missing, asked>>

\* What root_dir/.treasureignore can be.
IgnoreFile(exists, lines) == [exists |-> exists, readable |-> TRUE, lines |-> lines]

NoIgnoreFile == IgnoreFile(FALSE, <<>>)

\* "# keep a.pdf" / "*.pdf" / "!a.pdf"
IgnorePdfButLowerA ==
    IgnoreFile(TRUE, << <<"#", " ", "k", "e", "e", "p">>,
                        <<"*", ".", "p", "d", "f">>,
                        <<"!", "a", ".", "p", "d", "f">> >>)

IgnoreFiles == {NoIgnoreFile, IgnorePdfButLowerA}

\* The states each document takes: a.pdf is written, rewritten and locked;
\* A.pdf is only created and deleted.
StatesOf(loc) == IF loc = LocLowerA THEN FileStates ELSE {Absent, "H1"}

\* What the documents under root_dir can be when a pass runs.
Trees == {t \in [Locations -> FileStates] : \A loc \in Locations : t[loc] \in StatesOf(loc)}

\* The documents of a tree that are on disk.
OnDisk(files) == {loc \in DOMAIN files : files[loc] # Absent}

\* The description a user types into a row.
Note == <<"n", "o", "t", "e">>

\* No pass is running or has just returned: its locals do not exist.
Idle ==
    /\ found = <<>>
    /\ ignore_rules_map = <<>>
    /\ today = 0
    /\ prune_missing = FALSE
    /\ dry_run = FALSE
    /\ scan_result = ScanResult(0)
    /\ keep_missing = FALSE

\* Before the first pass: no workbook.
NoWorkbook ==
    /\ sheet = <<>>
    /\ meta_sheet = <<>>
    /\ passes = 0
    /\ Idle

\* The matcher has been asked nothing on its own.
NothingAsked ==
    /\ asked_file = NoIgnoreFile
    /\ asked_path = <<>>
    /\ answer = <<>>
    /\ raised = FALSE

Init == NoWorkbook /\ NothingAsked

\* ------------------------------------------------------------------ actions

\* The user fills in the Description of a row and saves the workbook.
EditDescription(loc) ==
    /\ Idle
    /\ HasKey(sheet, loc)
    /\ Lookup(sheet, loc).Description # Note
    /\ sheet' = Put(sheet, [Lookup(sheet, loc) EXCEPT !.Description = Note])
    /\ UNCHANGED <<meta_sheet, found, ignore_rules_map, today, prune_missing,
                   dry_run, scan_result, passes, keep_missing, asked>>

\* A pass that rewrites the workbook also when dry_run is set.
Pass_writing(discovered, rules, day, prune, dry) ==
    /\ passes < MaxPasses
    /\ LET out == Reconcile(ReadSheet(sheet), ReadSheet(meta_sheet), discovered,
                            rules, day, prune)
       IN /\ scan_result' = out.scan_result
          /\ sheet' = WriteSorted(out.updated_rows)
          /\ meta_sheet' = WriteSorted(out.meta)
    /\ found' = discovered
    /\ ignore_rules_map' = rules
    /\ today' = day
    /\ prune_missing' = prune
    /\ dry_run' = dry
    /\ passes' = passes + 1
    /\ UNCHANGED asked

\* A pass from the discovered documents on: the reconciliation, then the
\* workbook rewritten unless dry_run.
Pass(discovered, rules, day, prune, dry) ==
    /\ passes < MaxPasses
    /\ LET out == Reconcile(ReadSheet(sheet), ReadSheet(meta_sheet), discovered,
                            rules, day, prune)
       IN /\ scan_result' = out.scan_result
          /\ IF dry
             THEN UNCHANGED <<sheet, meta_sheet>>
             ELSE /\ sheet' = WriteSorted(out.updated_rows)
                  /\ meta_sheet' = WriteSorted(out.meta)
    /\ found' = discovered
    /\ ignore_rules_map' = rules
    /\ today' = day
    /\ prune_missing' = prune
    /\ dry_run' = dry
    /\ passes' = passes + 1
    /\ UNCHANGED asked

\* One pass: create_or_update_treasure_map(root_dir, output_xlsx, today=day,
\* prune_missing=prune, dry_run=dry) over the tree `files` with the given
\* .treasureignore, Path.walk() yielding the documents in the order `walk`.
create_or_update_treasure_map(files, ignore_file, walk, day, prune, dry) ==
    /\ Idle
    /\ Pass(discover_documents(files, ignore_file, walk),
            load_treasureignore(ignore_file), day, prune, dry)
    /\ UNCHANGED keep_missing

\* The pass run again at once, over the workbook it has just written or, after
\* a dry run, left alone: the same documents are discovered, the rules and
\* the date are the same.
Rerun(prune, dry) ==
    /\ ~Idle
    /\ Pass(found, ignore_rules_map, today, prune, dry)
    /\ UNCHANGED keep_missing

\* The pass has returned and its caller is done with the result: what is
\* left is the workbook.
Finish ==
    /\ ~Idle
    /\ found' = <<>>
    /\ ignore_rules_map' = <<>>
    /\ today' = 0
    /\ prune_missing' = FALSE
    /\ dry_run' = FALSE
    /\ scan_result' = ScanResult(0)
    /\ keep_missing' = FALSE
    /\ UNCHANGED <<sheet, meta_sheet, passes, asked>>

Next ==
    \/ \E loc \in Locations : EditDescription(loc)
    \/ \E files \in Trees, ignore_file \in IgnoreFiles, day \in Days,
          prune \in BOOLEAN, dry \in BOOLEAN :
           \E walk \in WalkOrders(OnDisk(files)) :
               create_or_update_treasure_map(files, ignore_file, walk, day, prune, dry)
    \/ \E prune \in BOOLEAN, dry \in BOOLEAN : Rerun(prune, dry)
    \/ Finish

Spec == Init /\ [][Next]_vars

\* ------------------------------------------- names that hold a backslash

\* On a POSIX file system "a\b.pdf" is one file name: as_posix() leaves the
\* backslash in the location (_posix_relpath).
LocBackslash == <<"a", "\\", "b", ".", "p", "d", "f">>

\* "b.pdf"
IgnoreBPdf == IgnoreFile(TRUE, << <<"b", ".", "p", "d", "f">> >>)

\* Trees that hold a.pdf and the file named a\b.pdf.
TreesWithBackslash == [{LocLowerA, LocBackslash} -> {Absent} \cup Contents]

\* Passes over such trees, with no .treasureignore or with the one above.
NextWithBackslash ==
    \/ \E files \in TreesWithBackslash, ignore_file \in {NoIgnoreFile, IgnoreBPdf},
          day \in Days, prune \in BOOLEAN, dry \in BOOLEAN :
           \E walk \in WalkOrders(OnDisk(files)) :
               create_or_update_treasure_map(files, ignore_file, walk, day, prune, dry)
    \/ Finish

SpecWithBackslash == Init /\ [][NextWithBackslash]_vars

\* ------------------------------------------------------ the command line

\* --keep-missing is a flag with default False: the option is True when the
\* flag is on the command line and False when it is not.
keep_missing_option(flag_given) == IF flag_given THEN TRUE ELSE FALSE

\* A cli that passes the option on as it is.
cli_prune_missing_as_given(keep) == keep

\* prune_missing=not keep_missing
cli_prune_missing(keep) == ~keep

\* The trees the command line is run over: each document there or not.
CliTrees == [Locations -> {Absent, "H1"}]

\* dof [--keep-missing] [--dry-run] ROOT_DIR, run on the day `day` over the
\* tree `files` (no .treasureignore), whatever the run before it left.
cli(files, walk, day, flag_given, dry) ==
    /\ Pass(discover_documents(files, NoIgnoreFile, walk),
            load_treasureignore(NoIgnoreFile), day,
            cli_prune_missing(keep_missing_option(flag_given)), dry)
    /\ keep_missing' = keep_missing_option(flag_given)

NextCli ==
    \E files \in CliTrees, day \in Days, flag_given \in BOOLEAN, dry \in BOOLEAN :
        \E walk \in WalkOrders(OnDisk(files)) :
            cli(files, walk, day, flag_given, dry)

SpecCli == Init /\ [][NextCli]_vars

\* ------------------------------------------- versions a user has typed

\* What the Version cell of a row can hold after the user has edited the
\* workbook: None (cleared), "1.9", "2", "1.5.2", "abc", "1.x", "x.1", " 3.4 ".
VersionTexts ==
    {NoneStr, <<"1", ".", "9">>, <<"2">>, <<"1", ".", "5", ".", "2">>, <<"a", "b", "c">>, <<"1", ".", "x">>, <<"x", ".", "1">>, <<" ", "3", ".", "4", " ">>}

\* The user changes the Version cell of a row and saves the workbook; the
\* next pass reads it back as it is.
EditVersion(loc, v) ==
    /\ Idle
    /\ HasKey(sheet, loc)
    /\ Lookup(sheet, loc).Version # v
    /\ sheet' = Put(sheet, [Lookup(sheet, loc) EXCEPT !.Version = v])
    /\ UNCHANGED <<meta_sheet, found, ignore_rules_map, today, prune_missing,
                   dry_run, scan_result, passes, keep_missing, asked>>

\* Trees that hold a.pdf only.
TreesOfOne == [{LocLowerA} -> {Absent} \cup Contents]

\* Passes over a.pdf, between which the user may edit its Version cell.
NextVersion ==
    \/ \E v \in VersionTexts : EditVersion(LocLowerA, v)
    \/ \E files \in TreesOfOne, day \in Days, prune \in BOOLEAN, dry \in BOOLEAN :
           \E walk \in WalkOrders(OnDisk(files)) :
               create_or_update_treasure_map(files, NoIgnoreFile, walk, day, prune, dry)
    \/ Finish

SpecVersion == Init /\ [][NextVersion]_vars

\* ------------------------------------------------ the matcher on its own

\* "*.pdf" / "!keep.pdf"
IgnorePdfButKeep ==
    IgnoreFile(TRUE, << <<"*", ".", "p", "d", "f">>,
                      <<"!", "k", "e", "e", "p", ".", "p", "d", "f">> >>)

\* "*.pdf" / "!keep.pdf" / "keep.pdf"
IgnorePdfButKeepThenKeep ==
    IgnoreFile(TRUE, << <<"*", ".", "p", "d", "f">>,
                      <<"!", "k", "e", "e", "p", ".", "p", "d", "f">>,
                      <<"k", "e", "e", "p", ".", "p", "d", "f">> >>)

\* "!keep.pdf" / "*.pdf"
IgnoreKeepNegatedFirst ==
    IgnoreFile(TRUE, << <<"!", "k", "e", "e", "p", ".", "p", "d", "f">>,
                      <<"*", ".", "p", "d", "f">> >>)

\* "build/" / "!build/keep.pdf"
IgnoreBuildButKeep ==
    IgnoreFile(TRUE, << <<"b", "u", "i", "l", "d", "/">>,
                      <<"!", "b", "u", "i", "l", "d", "/", "k", "e", "e", "p", ".", "p", "d", "f">> >>)

\* "build/"
IgnoreBuildDir ==
    IgnoreFile(TRUE, << <<"b", "u", "i", "l", "d", "/">> >>)

\* "build*/"
IgnoreBuildStarDir ==
    IgnoreFile(TRUE, << <<"b", "u", "i", "l", "d", "*", "/">> >>)

\* A .treasureignore that exists and cannot be read: read_text raises OSError.
UnreadableIgnoreFile == [exists |-> TRUE, readable |-> FALSE, lines |-> <<>>]

\* A .treasureignore of bytes that are no UTF-8.
IgnoreBinary == IgnoreFile(TRUE, << <<InvalidByte, InvalidByte>> >>)

\* "*.pdf" and a second line of bytes that are no UTF-8.
IgnorePdfThenBinary ==
    IgnoreFile(TRUE, << <<"*", ".", "p", "d", "f">>, <<InvalidByte>> >>)

\* "/exclude.pdf"
IgnoreRootExclude ==
    IgnoreFile(TRUE, << <<"/", "e", "x", "c", "l", "u", "d", "e", ".", "p", "d", "f">> >>)

\* "/*.pdf"
IgnoreRootAnyPdf ==
    IgnoreFile(TRUE, << <<"/", "*", ".", "p", "d", "f">> >>)

\* "/build/"
IgnoreRootBuildDir ==
    IgnoreFile(TRUE, << <<"/", "b", "u", "i", "l", "d", "/">> >>)

\* "draft.pdf"
IgnoreDraftPdf ==
    IgnoreFile(TRUE, << <<"d", "r", "a", "f", "t", ".", "p", "d", "f">> >>)

\* "test?.pdf"
IgnoreTestOneChar ==
    IgnoreFile(TRUE, << <<"t", "e", "s", "t", "?", ".", "p", "d", "f">> >>)

\* "docs/a.pdf"
IgnoreDocsAPdf ==
    IgnoreFile(TRUE, << <<"d", "o", "c", "s", "/", "a", ".", "p", "d", "f">> >>)

\* "docs/draft/"
IgnoreDocsDraftDir ==
    IgnoreFile(TRUE, << <<"d", "o", "c", "s", "/", "d", "r", "a", "f", "t", "/">> >>)

\* "a.pdf/"
IgnoreAPdfDir ==
    IgnoreFile(TRUE, << <<"a", ".", "p", "d", "f", "/">> >>)

\* The files the matcher is asked about.
AskedFiles ==
    {NoIgnoreFile, IgnorePdfButKeep, IgnorePdfButKeepThenKeep,
     IgnoreKeepNegatedFirst, IgnoreBuildButKeep, IgnoreBuildDir,
     IgnoreBuildStarDir, UnreadableIgnoreFile, IgnoreBinary, IgnorePdfThenBinary,
     IgnoreRootExclude, IgnoreRootAnyPdf, IgnoreRootBuildDir, IgnoreDraftPdf,
     IgnoreTestOneChar, IgnoreDocsAPdf, IgnoreDocsDraftDir, IgnoreAPdfDir}

\* The root-relative paths it is asked about.
AskedPaths ==
    {<<"k", "e", "e", "p", ".", "p", "d", "f">>,
     <<"o", "u", "t", ".", "p", "d", "f">>,
     <<"d", "o", "c", ".", "t", "x", "t">>,
     <<"s", "u", "b", "/", "k", "e", "e", "p", ".", "p", "d", "f">>,
     <<"b", "u", "i", "l", "d", "/", "o", "u", "t", ".", "p", "d", "f">>,
     <<"b", "u", "i", "l", "d", "/", "k", "e", "e", "p", ".", "p", "d", "f">>,
     <<"b", "u", "i", "l", "d", "/", "x", "/", "y", "/", "o", "u", "t", ".", "p", "d", "f">>,
     <<"k", "e", "e", "p", "/", "b", "u", "i", "l", "d", "/", "x", "/", "o", "u", "t", ".", "p", "d", "f">>,
     <<"r", "e", "b", "u", "i", "l", "d", "/", "o", "u", "t", ".", "p", "d", "f">>,
     <<"b", "u", "i", "l", "d", "s", "/", "o", "u", "t", ".", "p", "d", "f">>,
     <<"x", "/", "b", "u", "i", "l", "d", "u", "p", "/", "o", "u", "t", ".", "p", "d", "f">>,
     <<"e", "x", "c", "l", "u", "d", "e", ".", "p", "d", "f">>,
     <<"s", "u", "b", "/", "e", "x", "c", "l", "u", "d", "e", ".", "p", "d", "f">>,
     <<"b", "u", "i", "l", "d", "/", "s", "u", "b", "/", "o", "u", "t", ".", "p", "d", "f">>,
     <<"s", "u", "b", "/", "b", "u", "i", "l", "d", "/", "o", "u", "t", ".", "p", "d", "f">>,
     <<"d", "r", "a", "f", "t", ".", "p", "d", "f">>,
     <<"d", "o", "c", "s", "/", "d", "r", "a", "f", "t", ".", "p", "d", "f">>,
     <<"a", "/", "b", "/", "d", "r", "a", "f", "t", ".", "p", "d", "f">>,
     <<"d", "o", "c", "s", "/", "f", "i", "n", "a", "l", ".", "p", "d", "f">>,
     <<"t", "e", "s", "t", "1", ".", "p", "d", "f">>,
     <<"t", "e", "s", "t", "1", "0", ".", "p", "d", "f">>,
     <<"d", "o", "c", "s", "/", "a", ".", "p", "d", "f">>,
     <<"x", "/", "d", "o", "c", "s", "/", "a", ".", "p", "d", "f">>,
     <<"d", "o", "c", "s", "/", "d", "r", "a", "f", "t", "/", "a", ".", "p", "d", "f">>,
     <<"d", "o", "c", "s", "/", "d", "r", "a", "f", "t", "/", "x", "/", "y", "/", "a", ".", "p", "d", "f">>,
     <<"d", "o", "c", "s", "/", "f", "i", "n", "a", "l", "/", "b", ".", "p", "d", "f">>,
     <<"p", "r", "o", "j", "e", "c", "t", "s", "/", "d", "r", "a", "f", "t", "/", "c", ".", "p", "d", "f">>,
     <<"a", ".", "p", "d", "f">>}

\* A .treasureignore and a path are chosen.
InitMatcher ==
    /\ NoWorkbook
    /\ asked_file \in AskedFiles
    /\ asked_path \in AskedPaths
    /\ answer = <<>>
    /\ raised = FALSE

\* _is_ignored(asked_path, _load_treasureignore(root_dir)): it returns an
\* answer or raises.
AskMatcher ==
    /\ answer = <<>>
    /\ ~raised
    /\ raised' = is_ignored_raises(asked_path, load_treasureignore(asked_file))
    /\ answer' = IF raised' THEN <<>>
                  ELSE <<is_ignored(asked_path, load_treasureignore(asked_file))>>
    /\ UNCHANGED <<sheet, meta_sheet, found, ignore_rules_map, today,
                   prune_missing, dry_run, scan_result, passes, keep_missing,
                   asked_file, asked_path>>

NextMatcher == AskMatcher

SpecMatcher == InitMatcher /\ [][NextMatcher]_vars

\* ------------------------------------------- every short rule file

\* The characters its lines are made of.
RuleChars == {"!", "/", " ", ".", "a"}

\* Every line of at most MaxLine such characters.
RuleLines == UNION {[1..n -> RuleChars] : n \in 0..MaxLine}

\* The paths put to the rules.
ParserPaths == {LocLowerA, <<"a", "/", "a", ".", "p", "d", "f">>}

\* A .treasureignore of one line and a path are chosen.
InitParser ==
    /\ NoWorkbook
    /\ asked_file \in {IgnoreFile(TRUE, <<line>>) : line \in RuleLines}
    /\ asked_path \in ParserPaths
    /\ answer = <<>>
    /\ raised = FALSE

NextParser == AskMatcher

SpecParser == InitParser /\ [][NextParser]_vars

\* ------------------------------------------------------------------- claims

\* Whether x is in the list.
InList(list, x) == \E i \in 1..Len(list) : list[i] = x

\* A step that is a pass (a first run or a rerun).
IsPass == passes' = passes + 1

\* The locations a pass discovered.
FoundLocs(discovered) == {discovered[i].rel_location : i \in 1..Len(discovered)}

\* The (major, minor) a version text spells, for texts of the form "M.N".
Major(v) == parse_version(v)[1]
Minor(v) == parse_version(v)[2]

\* v2 is v1 with the minor component one higher and the major the same.
MinorRaisedByOne(v1, v2) ==
    /\ Major(v2) = Major(v1)
    /\ Minor(v2) = Minor(v1) + 1
    /\ (v1 = <<"1", ".", "0">> => v2 = <<"1", ".", "1">>)
    /\ (v1 = <<"1", ".", "1">> => v2 = <<"1", ".", "2">>)

\* C1: a discovered file with a prior record, whose stored and new
\* fingerprints are both present and differ, is classified Updated; the
\* minor component of its version rises by exactly 1 (major unchanged), the
\* new fingerprint is stored and Last Seen becomes the pass's date, while
\* Date Found and Description keep their values.
C1_ProvenChangeIsUpdated ==
    [][IsPass =>
        \A i \in 1..Len(found') :
            LET loc == found'[i].rel_location
                new_sha == found'[i].sha256
                old_sha == MetaGet(meta_sheet, loc)
            IN (HasKey(sheet, loc) /\ old_sha # None /\ new_sha # None
                    /\ old_sha # new_sha)
               => /\ InList(scan_result'.updated_files, loc)
                  /\ \E c \in 1..Len(scan_result'.changes) :
                        /\ scan_result'.changes[c].location = loc
                        /\ scan_result'.changes[c].change_type = Updated
                        /\ scan_result'.changes[c].old_version = Lookup(sheet, loc).Version
                        /\ MinorRaisedByOne(Lookup(sheet, loc).Version,
                                            scan_result'.changes[c].new_version)
                  /\ (~dry_run' =>
                        /\ HasKey(sheet', loc)
                        /\ MinorRaisedByOne(Lookup(sheet, loc).Version,
                                            Lookup(sheet', loc).Version)
                        /\ MetaGet(meta_sheet', loc) = new_sha
                        /\ Lookup(sheet', loc).LastSeen = today'
                        /\ Lookup(sheet', loc).DateFound = Lookup(sheet, loc).DateFound
                        /\ Lookup(sheet', loc).Description = Lookup(sheet, loc).Description)
    ]_vars

\* C1's case: a pass has just rewritten the workbook with an Updated row,
\* now at version 1.1 with a description the user had typed.
C1_Witness ==
    /\ ~dry_run
    /\ \E i \in 1..Len(sheet) :
          /\ InList(scan_result.updated_files, sheet[i].Location)
          /\ sheet[i].Version = <<"1", ".", "1">>
          /\ sheet[i].Description = Note
          /\ sheet[i].DateFound < sheet[i].LastSeen

\* C2: a discovered file with a prior record whose stored fingerprint equals
\* the new one (both absent included) is classified Unchanged, and the pass
\* changes nothing of the record but Last Seen, which becomes the pass's
\* date: version, Date Found, description and stored fingerprint stay.
C2_SameFingerprintIsUnchanged ==
    [][IsPass =>
        \A i \in 1..Len(found') :
            LET loc == found'[i].rel_location
            IN (HasKey(sheet, loc) /\ MetaGet(meta_sheet, loc) = found'[i].sha256)
               => /\ InList(scan_result'.unchanged_files, loc)
                  /\ ~InList(scan_result'.updated_files, loc)
                  /\ (~dry_run' =>
                        /\ HasKey(sheet', loc)
                        /\ Lookup(sheet', loc) =
                               [Lookup(sheet, loc) EXCEPT !.LastSeen = today']
                        /\ MetaGet(meta_sheet', loc) = MetaGet(meta_sheet, loc))
    ]_vars

\* C2's case: a pass has just rewritten the workbook with an Unchanged row
\* first seen on an earlier day.
C2_Witness ==
    /\ ~dry_run
    /\ \E i \in 1..Len(sheet) :
          /\ InList(scan_result.unchanged_files, sheet[i].Location)
          /\ MetaGet(meta_sheet, sheet[i].Location) \in Contents
          /\ sheet[i].DateFound < sheet[i].LastSeen
          /\ sheet[i].LastSeen = today

\* C3: the version of a record never decreases or resets: a pass that
\* classifies it Updated raises the minor component by exactly 1, every
\* other pass that keeps the record, and every other step, leaves the
\* version as it is.
C3_VersionMonotone ==
    [][\A i \in 1..Len(sheet) :
          LET loc == sheet[i].Location
          IN HasKey(sheet', loc)
             => IF IsPass /\ ~dry_run' /\ InList(scan_result'.updated_files, loc)
                THEN MinorRaisedByOne(sheet[i].Version, Lookup(sheet', loc).Version)
                ELSE Lookup(sheet', loc).Version = sheet[i].Version
    ]_vars

\* C3's case: a record has been Updated by two passes and is at version 1.2.
C3_Witness ==
    /\ ~dry_run
    /\ \E i \in 1..Len(sheet) :
          /\ InList(scan_result.updated_files, sheet[i].Location)
          /\ sheet[i].Version = <<"1", ".", "2">>

\* Every row of a sheet has Date Found no later than Last Seen.
AllOrdered(ws) == \A i \in 1..Len(ws) : ws[i].DateFound <= ws[i].LastSeen

\* C4 as stated: after any passes, with any dates supplied to them, every
\* row has Date Found no later than Last Seen.
C4_DateFoundNeverAfterLastSeen == AllOrdered(sheet)

\* C4, amended: a pass whose date is not earlier than the Date Found of any
\* row it starts from keeps Date Found no later than Last Seen in every row;
\* so the order holds after any passes whose dates never decrease.
C4_OrderedWhenDatesDoNotDecrease ==
    [][(IsPass /\ AllOrdered(sheet)
            /\ \A i \in 1..Len(sheet) : sheet[i].DateFound <= today')
       => AllOrdered(sheet')
    ]_vars

\* C4's case: a pass on a later day has rewritten a row found earlier, next
\* to a row it found itself.
C4_Witness ==
    /\ ~dry_run
    /\ \A i \in 1..Len(sheet) : sheet[i].DateFound <= today
    /\ \E i, j \in 1..Len(sheet) :
          /\ sheet[i].DateFound < sheet[i].LastSeen
          /\ sheet[i].LastSeen = today
          /\ InList(scan_result.new_files, sheet[j].Location)

\* C5: a pass never writes the Description of a row it keeps: whether the
\* row is Unchanged, Updated or not found and kept, its Description after
\* the pass is the one before it.
C5_DescriptionNeverWritten ==
    [][IsPass =>
        \A i \in 1..Len(sheet) :
            HasKey(sheet', sheet[i].Location)
            => Lookup(sheet', sheet[i].Location).Description = sheet[i].Description
    ]_vars

\* C5's case: a pass has rewritten the workbook, one row with a description
\* the user typed is Updated and another such row was not found and is kept.
C5_Witness ==
    /\ ~dry_run
    /\ today > 0
    /\ \E i, j \in 1..Len(sheet) :
          /\ sheet[i].Description = Note
          /\ InList(scan_result.updated_files, sheet[i].Location)
          /\ sheet[j].Description = Note
          /\ sheet[j].Location \notin FoundLocs(found)

\* C6: the Date Found of a row that a pass keeps is the one it had before
\* the pass, whatever the classification and whatever the pass's date.
C6_DateFoundInvariant ==
    [][IsPass =>
        \A i \in 1..Len(sheet) :
            HasKey(sheet', sheet[i].Location)
            => Lookup(sheet', sheet[i].Location).DateFound = sheet[i].DateFound
    ]_vars

\* C6's case: a pass dated before a row was found has rewritten that row.
C6_Witness ==
    /\ ~dry_run
    /\ \E i \in 1..Len(sheet) :
          /\ sheet[i].Location \in FoundLocs(found)
          /\ sheet[i].LastSeen = today
          /\ today < sheet[i].DateFound

\* C7: without pruning, a row whose location is not found and is not
\* ignored is kept with every field and its stored fingerprint as they
\* were, Last Seen included, and is reported neither Updated nor Deleted.
C7_MissingKeptUntouched ==
    [][(IsPass /\ ~prune_missing') =>
        \A i \in 1..Len(sheet) :
            LET loc == sheet[i].Location
            IN (loc \notin FoundLocs(found') /\ ~is_ignored(loc, ignore_rules_map'))
               => /\ ~InList(scan_result'.updated_files, loc)
                  /\ ~InList(scan_result'.deleted_files, loc)
                  /\ \A c \in 1..Len(scan_result'.changes) :
                        scan_result'.changes[c].location # loc
                  /\ (~dry_run' =>
                        /\ HasKey(sheet', loc)
                        /\ Lookup(sheet', loc) = sheet[i]
                        /\ MetaGet(meta_sheet', loc) = MetaGet(meta_sheet, loc)
                        /\ HasKey(meta_sheet', loc) = HasKey(meta_sheet, loc))
    ]_vars

\* C7's case: a pass without pruning has rewritten the workbook and kept a
\* row it did not find, last seen on an earlier day.
C7_Witness ==
    /\ ~dry_run
    /\ ~prune_missing
    /\ today > 0
    /\ \E i \in 1..Len(sheet) :
          /\ sheet[i].Location \notin FoundLocs(found)
          /\ sheet[i].LastSeen < today
          /\ MetaGet(meta_sheet, sheet[i].Location) \in Contents

\* C8: with pruning, every row whose location is not found and was not
\* removed as Ignored is removed, with its stored fingerprint, and reported
\* Deleted; no found location is reported Deleted or removed as missing.
C8_PruneRemovesMissing ==
    [][(IsPass /\ prune_missing') =>
        /\ \A i \in 1..Len(sheet) :
              LET loc == sheet[i].Location
              IN (loc \notin FoundLocs(found')
                      /\ ~InList(scan_result'.ignored_files, loc))
                 => /\ InList(scan_result'.deleted_files, loc)
                    /\ (~dry_run' => ~HasKey(sheet', loc) /\ ~HasKey(meta_sheet', loc))
        /\ \A loc \in FoundLocs(found') :
              /\ ~InList(scan_result'.deleted_files, loc)
              /\ ((~dry_run' /\ ~InList(scan_result'.ignored_files, loc))
                    => HasKey(sheet', loc))
    ]_vars

\* C8's case: a pruning pass has rewritten the workbook, reporting one
\* location Deleted and keeping the row of one it found.
C8_Witness ==
    /\ ~dry_run
    /\ prune_missing
    /\ scan_result.deleted_files # <<>>
    /\ \A i \in 1..Len(scan_result.deleted_files) :
          ~HasKey(sheet, scan_result.deleted_files[i])
    /\ \E i \in 1..Len(sheet) : sheet[i].Location \in FoundLocs(found)

\* C9: a row, old or new, whose location the current rules ignore is removed
\* and reported Ignored, with pruning or without, and is never reported
\* Deleted.
C9_IgnoredRemovedNeverDeleted ==
    [][IsPass =>
        \A loc \in {sheet[i].Location : i \in 1..Len(sheet)} \cup FoundLocs(found') :
            is_ignored(loc, ignore_rules_map')
            => /\ InList(scan_result'.ignored_files, loc)
               /\ ~InList(scan_result'.deleted_files, loc)
               /\ (~dry_run' => ~HasKey(sheet', loc) /\ ~HasKey(meta_sheet', loc))
    ]_vars

\* C9's case: a pruning pass has rewritten the workbook and reported a
\* location Ignored, which is on neither sheet any more.
C9_Witness ==
    /\ ~dry_run
    /\ prune_missing
    /\ scan_result.ignored_files # <<>>
    /\ scan_result.deleted_files = <<>>
    /\ \A i \in 1..Len(scan_result.ignored_files) :
          /\ ~HasKey(sheet, scan_result.ignored_files[i])
          /\ ~HasKey(meta_sheet, scan_result.ignored_files[i])

\* A step that runs a pass again on the workbook the pass before it wrote,
\* with the same found files, the same rules and the same date.
IsRerun ==
    /\ IsPass
    /\ today > 0
    /\ ~dry_run
    /\ found' = found
    /\ ignore_rules_map' = ignore_rules_map
    /\ today' = today

\* The workbook is as it was and the report lists every found location as
\* Unchanged and nothing else.
NothingChanged ==
    /\ sheet' = sheet
    /\ meta_sheet' = meta_sheet
    /\ {scan_result'.unchanged_files[i] : i \in 1..Len(scan_result'.unchanged_files)}
           = FoundLocs(found')
    /\ scan_result'.new_files = <<>>
    /\ scan_result'.updated_files = <<>>
    /\ scan_result'.deleted_files = <<>>
    /\ scan_result'.ignored_files = <<>>
    /\ \A c \in 1..Len(scan_result'.changes) :
          scan_result'.changes[c].change_type = Unchanged

ReportedOnceAs(res, loc, change_type, old_version, new_version) ==
    /\ \E c \in 1..Len(res.changes) :
          res.changes[c] = FileChange(loc, change_type, old_version, new_version)
    /\ \A c, d \in 1..Len(res.changes) :
          (res.changes[c].location = loc /\ res.changes[d].location = loc) => c = d

\* C11: a found file that cannot be read now (no fingerprint) but whose row
\* has a stored fingerprint is Unchanged, never Updated and never Deleted:
\* the version and the stored fingerprint stay and only Last Seen changes,
\* to the pass's date.
C11_UnreadableNowIsUnchanged ==
    [][IsPass =>
        \A i \in 1..Len(found') :
            LET loc == found'[i].rel_location
            IN (HasKey(sheet, loc) /\ found'[i].sha256 = None
                    /\ MetaGet(meta_sheet, loc) # None)
               => /\ InList(scan_result'.unchanged_files, loc)
                  /\ ~InList(scan_result'.updated_files, loc)
                  /\ ~InList(scan_result'.deleted_files, loc)
                  /\ ReportedOnceAs(scan_result', loc, Unchanged,
                                    Lookup(sheet, loc).Version,
                                    Lookup(sheet, loc).Version)
                  /\ (~dry_run' =>
                        /\ HasKey(sheet', loc)
                        /\ Lookup(sheet', loc) =
                               [Lookup(sheet, loc) EXCEPT !.LastSeen = today']
                        /\ MetaGet(meta_sheet', loc) = MetaGet(meta_sheet, loc))
    ]_vars

\* C11's case: a pruning pass on a later day has found a document it could
\* not read, and its row keeps the fingerprint stored before.
C11_Witness ==
    /\ ~dry_run
    /\ prune_missing
    /\ \E i \in 1..Len(found) :
          LET loc == found[i].rel_location
          IN /\ found[i].sha256 = None
             /\ InList(scan_result.unchanged_files, loc)
             /\ HasKey(sheet, loc)
             /\ MetaGet(meta_sheet, loc) \in Contents
             /\ Lookup(sheet, loc).DateFound < Lookup(sheet, loc).LastSeen
             /\ Lookup(sheet, loc).LastSeen = today

\* The report of the pass that would come next on the written workbook if it
\* found loc alone, with fingerprint sha.
NextReport(loc, sha) ==
    Reconcile(ReadSheet(sheet'), ReadSheet(meta_sheet'), <<FoundFile(loc, sha)>>,
              <<>>, today', FALSE).scan_result

\* C12: a found file whose row has no stored fingerprint and whose
\* fingerprint is present now is Unchanged: the fingerprint is stored and
\* the version is not bumped; a pass after it that finds the same
\* fingerprint reports Unchanged, one that finds another reports Updated.
C12_FirstFingerprintIsUnchanged ==
    [][IsPass =>
        \A i \in 1..Len(found') :
            LET loc == found'[i].rel_location
                sha == found'[i].sha256
            IN (HasKey(sheet, loc) /\ MetaGet(meta_sheet, loc) = None /\ sha # None)
               => /\ InList(scan_result'.unchanged_files, loc)
                  /\ ~InList(scan_result'.updated_files, loc)
                  /\ ReportedOnceAs(scan_result', loc, Unchanged,
                                    Lookup(sheet, loc).Version,
                                    Lookup(sheet, loc).Version)
                  /\ (~dry_run' =>
                        /\ HasKey(sheet', loc)
                        /\ Lookup(sheet', loc).Version = Lookup(sheet, loc).Version
                        /\ MetaGet(meta_sheet', loc) = sha
                        /\ \A later \in Contents :
                              IF later = sha
                              THEN NextReport(loc, later).unchanged_files = <<loc>>
                                   /\ NextReport(loc, later).updated_files = <<>>
                              ELSE NextReport(loc, later).updated_files = <<loc>>
                                   /\ NextReport(loc, later).unchanged_files = <<>>)
    ]_vars

\* C12's case: a document first recorded while it could not be read has now
\* been read: it is Unchanged, still at version 1.0, with a stored
\* fingerprint.
C12_Witness ==
    /\ ~dry_run
    /\ \E i \in 1..Len(found) :
          LET loc == found[i].rel_location
          IN /\ found[i].sha256 \in Contents
             /\ InList(scan_result.unchanged_files, loc)
             /\ HasKey(sheet, loc)
             /\ MetaGet(meta_sheet, loc) = found[i].sha256
             /\ Lookup(sheet, loc).Version = <<"1", ".", "0">>
             /\ Lookup(sheet, loc).DateFound < Lookup(sheet, loc).LastSeen

\* C13: a found file with no row gets one with Date Found and Last Seen at
\* the pass's date, version 1.0, an empty description and the fingerprint
\* found (none if it could not be read), and is reported New, with no old
\* version and new version 1.0.
C13_NewDocumentGetsFirstRow ==
    [][IsPass =>
        \A i \in 1..Len(found') :
            LET loc == found'[i].rel_location
            IN ~HasKey(sheet, loc)
               => /\ InList(scan_result'.new_files, loc)
                  /\ ReportedOnceAs(scan_result', loc, New, NoneStr,
                                    <<"1", ".", "0">>)
                  /\ (~dry_run' =>
                        /\ HasKey(sheet', loc)
                        /\ Lookup(sheet', loc) =
                               [Location |-> loc, Description |-> <<>>,
                                DateFound |-> today', LastSeen |-> today',
                                Version |-> <<"1", ".", "0">>]
                        /\ HasKey(meta_sheet', loc)
                        /\ MetaGet(meta_sheet', loc) = found'[i].sha256)
    ]_vars

\* C13's case: a pass on the second day has recorded two new documents, one
\* it could read and one it could not.
C13_Witness ==
    /\ ~dry_run
    /\ today = 2
    /\ \E i, j \in 1..Len(found) :
          /\ found[i].sha256 = None
          /\ found[j].sha256 \in Contents
          /\ InList(scan_result.new_files, found[i].rel_location)
          /\ InList(scan_result.new_files, found[j].rel_location)
          /\ HasKey(meta_sheet, found[i].rel_location)
          /\ Lookup(sheet, found[j].rel_location).DateFound = 2

\* The locations of a list, as a set.
Listed(list) == {list[i] : i \in 1..Len(list)}

\* A list names no location twice.
NoRepeat(list) == \A i, j \in 1..Len(list) : list[i] = list[j] => i = j

\* The five lists of a report, in order.
ListsOf(res) ==
    <<res.new_files, res.updated_files, res.unchanged_files, res.deleted_files,
      res.ignored_files>>

\* C14: in every pass a location has one classification: no location is in
\* two of the report's new/updated/unchanged/deleted/ignored lists, or twice
\* in one, or twice in the changes list, and every found location is in
\* exactly one of new, updated and unchanged, so that total_found is the sum
\* of their lengths.
C14_OneChangePerLocation ==
    /\ \A k \in 1..5 : NoRepeat(ListsOf(scan_result)[k])
    /\ \A k, l \in 1..5 :
          k # l => Listed(ListsOf(scan_result)[k]) \cap Listed(ListsOf(scan_result)[l]) = {}
    /\ NoRepeat([c \in 1..Len(scan_result.changes) |-> scan_result.changes[c].location])
    /\ Listed(scan_result.new_files) \cup Listed(scan_result.updated_files)
           \cup Listed(scan_result.unchanged_files) = FoundLocs(found)
    /\ scan_result.total_found = Len(found)
    /\ scan_result.total_found =
           Len(scan_result.new_files) + Len(scan_result.updated_files)
               + Len(scan_result.unchanged_files)

\* The rules the matcher was asked with.
AskedRules == load_treasureignore(asked_file)

\* The rules that match the path asked about, by position.
Matching == {i \in 1..Len(AskedRules) : rule_matches(asked_path, AskedRules[i])}

\* The last of them.
LastMatching == CHOOSE i \in Matching : \A j \in Matching : j <= i

\* C15: the last matching rule in file order decides: a path is excluded
\* iff some rule matches it and the last that does is not negated. With
\* "*.pdf", "!keep.pdf" keep.pdf is not excluded; with "keep.pdf" added after
\* them it is; and a negated rule brings back a file under a directory that
\* an earlier directory rule excluded.
C15_LastMatchingRuleDecides ==
    answer # <<>> =>
        /\ answer[1] = (Matching # {} /\ ~AskedRules[LastMatching].negated)
        /\ (asked_path = <<"k", "e", "e", "p", ".", "p", "d", "f">> =>
              /\ (asked_file = IgnorePdfButKeep => answer[1] = FALSE)
              /\ (asked_file = IgnorePdfButKeepThenKeep => answer[1] = TRUE))
        /\ (asked_file = IgnoreBuildButKeep =>
              /\ (asked_path = <<"b", "u", "i", "l", "d", "/", "k", "e", "e", "p", ".", "p", "d", "f">>
                    => answer[1] = FALSE)
              /\ (asked_path = <<"b", "u", "i", "l", "d", "/", "o", "u", "t", ".", "p", "d", "f">>
                    => answer[1] = TRUE))

\* C15's case: keep.pdf has been put to "*.pdf", "!keep.pdf": two rules
\* match, the negated one last, and the path is not excluded.
C15_Witness ==
    /\ asked_file = IgnorePdfButKeep
    /\ asked_path = <<"k", "e", "e", "p", ".", "p", "d", "f">>
    /\ Matching = {1, 2}
    /\ answer = <<FALSE>>

\* The orders in which the same documents can come out of discover_documents
\* when the file system lists them in another order: every arrangement of
\* the found files that found.sort leaves as it is.
OtherTraversals(discovered) ==
    {d \in [1..Len(discovered) -> Listed(discovered)] :
        /\ \A i, j \in 1..Len(d) : d[i] = d[j] => i = j
        /\ \A i \in 1..(Len(d) - 1) :
              ~StrLess(SortKey(d[i + 1].rel_location), SortKey(d[i].rel_location))}

\* The main sheet the pass of this step would have written had it found its
\* documents in the order d.
SheetWrittenFor(d) ==
    WriteSorted(Reconcile(ReadSheet(sheet), ReadSheet(meta_sheet), d,
                          ignore_rules_map', today', prune_missing').updated_rows)

\* C16: the order in which the rows are written is fixed by the rows alone:
\* they go out sorted by location without regard to case, and the same
\* documents found in another traversal order give the same sequence of
\* rows, also when two locations differ only in case.
C16_WrittenOrderIndependentOfTraversal ==
    [][(IsPass /\ ~dry_run') =>
        /\ \A i \in 1..(Len(sheet') - 1) :
              ~StrLess(Lower(sheet'[i + 1].Location), Lower(sheet'[i].Location))
        /\ \A d \in OtherTraversals(found') : SheetWrittenFor(d) = sheet'
    ]_vars

\* A step that runs again, dry or not, the pass that has just run dry: the
\* same found files, rules, date and prune_missing.
RepeatsDryRun ==
    /\ IsPass
    /\ today > 0
    /\ dry_run
    /\ found' = found
    /\ ignore_rules_map' = ignore_rules_map
    /\ today' = today
    /\ prune_missing' = prune_missing

\* C17: a dry run writes nothing: both sheets are after it what they were
\* before it (no rows where there were none); and its report is the one the
\* same pass computes without dry_run, so that running it again, dry or
\* not, gives the same report.
C17_DryRunWritesNothing ==
    [][/\ (IsPass /\ dry_run') => (sheet' = sheet /\ meta_sheet' = meta_sheet)
       /\ RepeatsDryRun => scan_result' = scan_result
    ]_vars

\* C17's case: a dry run on a later day reports one document Updated and
\* another New, the first row is still at version 1.0 and last seen earlier,
\* and the second has no row.
C17_Witness ==
    /\ dry_run
    /\ \E i \in 1..Len(sheet) :
          /\ InList(scan_result.updated_files, sheet[i].Location)
          /\ sheet[i].Version = <<"1", ".", "0">>
          /\ sheet[i].LastSeen < today
    /\ \E i \in 1..Len(scan_result.new_files) :
          /\ ~HasKey(sheet, scan_result.new_files[i])
          /\ ~HasKey(meta_sheet, scan_result.new_files[i])

Undecodable(ignore_file) ==
    \E i \in 1..Len(ignore_file.lines) :
        \E j \in 1..Len(ignore_file.lines[i]) : ignore_file.lines[i][j] = InvalidByte

\* C19: a .treasureignore that cannot be read, or that holds content that is
\* no UTF-8, counts as no rules: no path is excluded (and so no row is
\* reported Ignored).
C19_BadRuleFileExcludesNothing ==
    (asked_file.exists /\ (~asked_file.readable \/ Undecodable(asked_file)))
        => (answer # <<>> => answer = <<FALSE>>)

\* The file asked about holds one rule: a directory rule, not negated, not
\* anchored at the root, with no "/" in its pattern.
OneDirectoryNameRule ==
    /\ Len(AskedRules) = 1
    /\ AskedRules[1].dir_only
    /\ ~AskedRules[1].negated
    /\ ~AskedRules[1].root_anchored
    /\ \A i \in 1..Len(AskedRules[1].pattern) : AskedRules[1].pattern[i] # "/"

\* The segments of the path asked about.
AskedParts == PathParts(asked_path)

\* C20: a directory rule with no "/" in its pattern excludes every path with
\* a directory segment above the file, at any depth, that the pattern
\* matches as a whole, however deep the file lies beneath it, and excludes
\* no path of which the pattern matches no whole segment: under "build/",
\* build/out.pdf and keep/build/x/out.pdf are excluded, rebuild/out.pdf is
\* not.
C20_DirectoryNameRuleAtAnyDepth ==
    (answer # <<>> /\ OneDirectoryNameRule) =>
        /\ (\E i \in 1..(Len(AskedParts) - 1) :
                fnmatchcase(AskedParts[i], AskedRules[1].pattern))
              => answer = <<TRUE>>
        /\ (\A i \in 1..Len(AskedParts) :
                ~fnmatchcase(AskedParts[i], AskedRules[1].pattern))
              => answer = <<FALSE>>
        /\ (asked_file = IgnoreBuildDir =>
              /\ (asked_path = <<"b", "u", "i", "l", "d", "/", "o", "u", "t", ".", "p", "d", "f">> => answer = <<TRUE>>)
              /\ (asked_path = <<"k", "e", "e", "p", "/", "b", "u", "i", "l", "d", "/", "x", "/", "o", "u", "t", ".", "p", "d", "f">>
                    => answer = <<TRUE>>)
              /\ (asked_path = <<"r", "e", "b", "u", "i", "l", "d", "/", "o", "u", "t", ".", "p", "d", "f">>
                    => answer = <<FALSE>>))

\* C20's case: keep/build/x/out.pdf has been put to "build/" and is excluded.
C20_Witness ==
    /\ asked_file = IgnoreBuildDir
    /\ OneDirectoryNameRule
    /\ asked_path = <<"k", "e", "e", "p", "/", "b", "u", "i", "l", "d", "/", "x", "/", "o", "u", "t", ".", "p", "d", "f">>
    /\ Len(AskedParts) = 4
    /\ answer = <<TRUE>>

\* The file asked about holds one rule, not negated, of the given kind.
OnlyRuleIs(dir_only, root_anchored) ==
    /\ Len(AskedRules) = 1
    /\ ~AskedRules[1].negated
    /\ AskedRules[1].dir_only = dir_only
    /\ AskedRules[1].root_anchored = root_anchored

\* Whether the text holds a "/".
HasSlash(s) == \E i \in 1..Len(s) : s[i] = "/"

\* C21: a rule anchored at the root that is no directory rule excludes a
\* path iff the path holds no "/" and the whole path matches the pattern:
\* "/exclude.pdf" excludes exclude.pdf and does not exclude sub/exclude.pdf.
C21_RootAnchoredMatchesRootEntriesOnly ==
    (answer # <<>> /\ OnlyRuleIs(FALSE, TRUE)) =>
        /\ answer[1] = (~HasSlash(asked_path)
                          /\ fnmatchcase(asked_path, AskedRules[1].pattern))
        /\ (asked_file = IgnoreRootExclude =>
              /\ (asked_path = <<"e", "x", "c", "l", "u", "d", "e", ".", "p", "d", "f">> => answer = <<TRUE>>)
              /\ (asked_path = <<"s", "u", "b", "/", "e", "x", "c", "l", "u", "d", "e", ".", "p", "d", "f">> => answer = <<FALSE>>))

\* C21's case: sub/exclude.pdf has been put to "/exclude.pdf" and is not
\* excluded.
C21_Witness ==
    /\ asked_file = IgnoreRootExclude
    /\ OnlyRuleIs(FALSE, TRUE)
    /\ asked_path = <<"s", "u", "b", "/", "e", "x", "c", "l", "u", "d", "e", ".", "p", "d", "f">>
    /\ answer = <<FALSE>>

\* C22: a directory rule anchored at the root excludes a path only if the
\* path's first segment matches the pattern, and excludes every path beneath
\* that directory of the root: under "/build/", build/out.pdf and
\* build/sub/out.pdf are excluded and sub/build/out.pdf is not.
C22_RootAnchoredDirectoryRule ==
    (answer # <<>> /\ OnlyRuleIs(TRUE, TRUE)) =>
        /\ answer = <<TRUE>> => fnmatchcase(AskedParts[1], AskedRules[1].pattern)
        /\ (Len(AskedParts) > 1 /\ fnmatchcase(AskedParts[1], AskedRules[1].pattern))
              => answer = <<TRUE>>
        /\ (asked_file = IgnoreRootBuildDir =>
              /\ (asked_path = <<"b", "u", "i", "l", "d", "/", "o", "u", "t", ".", "p", "d", "f">> => answer = <<TRUE>>)
              /\ (asked_path = <<"b", "u", "i", "l", "d", "/", "s", "u", "b", "/", "o", "u", "t", ".", "p", "d", "f">> => answer = <<TRUE>>)
              /\ (asked_path = <<"s", "u", "b", "/", "b", "u", "i", "l", "d", "/", "o", "u", "t", ".", "p", "d", "f">> => answer = <<FALSE>>))

\* C23: a plain rule (not negated, not anchored, no directory rule) with no
\* "/" in its pattern excludes a path iff the pattern matches the path's
\* last segment, at any depth: "draft.pdf" excludes draft.pdf,
\* docs/draft.pdf and a/b/draft.pdf and not docs/final.pdf; "test?.pdf"
\* excludes test1.pdf and not test10.pdf.
C23_PlainNameRuleMatchesBasename ==
    (answer # <<>> /\ OnlyRuleIs(FALSE, FALSE) /\ ~HasSlash(AskedRules[1].pattern)) =>
        /\ answer[1] = fnmatchcase(AskedParts[Len(AskedParts)], AskedRules[1].pattern)
        /\ (asked_file = IgnoreDraftPdf =>
              /\ (asked_path = <<"d", "r", "a", "f", "t", ".", "p", "d", "f">> => answer = <<TRUE>>)
              /\ (asked_path = <<"d", "o", "c", "s", "/", "d", "r", "a", "f", "t", ".", "p", "d", "f">> => answer = <<TRUE>>)
              /\ (asked_path = <<"a", "/", "b", "/", "d", "r", "a", "f", "t", ".", "p", "d", "f">> => answer = <<TRUE>>)
              /\ (asked_path = <<"d", "o", "c", "s", "/", "f", "i", "n", "a", "l", ".", "p", "d", "f">> => answer = <<FALSE>>))
        /\ (asked_file = IgnoreTestOneChar =>
              /\ (asked_path = <<"t", "e", "s", "t", "1", ".", "p", "d", "f">> => answer = <<TRUE>>)
              /\ (asked_path = <<"t", "e", "s", "t", "1", "0", ".", "p", "d", "f">> => answer = <<FALSE>>))

\* C23's case: a/b/draft.pdf, two directories down, has been put to
\* "draft.pdf" and is excluded.
C23_Witness ==
    /\ asked_file = IgnoreDraftPdf
    /\ OnlyRuleIs(FALSE, FALSE)
    /\ asked_path = <<"a", "/", "b", "/", "d", "r", "a", "f", "t", ".", "p", "d", "f">>
    /\ Len(AskedParts) = 3
    /\ answer = <<TRUE>>

\* The whole path matched against the whole pattern, segment by segment.
WholePathMatches(path, pattern) ==
    LET parts == PathParts(path)
        pat_parts == PathParts(pattern)
    IN /\ Len(parts) = Len(pat_parts)
       /\ \A i \in 1..Len(parts) : fnmatchcase(parts[i], pat_parts[i])

\* C24: a plain rule with a "/" in its pattern is matched against the full
\* path from the root: it excludes a path iff the entire path matches the
\* pattern; "docs/a.pdf" excludes docs/a.pdf and does not exclude
\* x/docs/a.pdf.
C24_PlainPathRuleMatchesWholePath ==
    (answer # <<>> /\ OnlyRuleIs(FALSE, FALSE) /\ HasSlash(AskedRules[1].pattern)) =>
        /\ answer[1] = WholePathMatches(asked_path, AskedRules[1].pattern)
        /\ (asked_file = IgnoreDocsAPdf =>
              /\ (asked_path = <<"d", "o", "c", "s", "/", "a", ".", "p", "d", "f">> => answer = <<TRUE>>)
              /\ (asked_path = <<"x", "/", "d", "o", "c", "s", "/", "a", ".", "p", "d", "f">> => answer = <<FALSE>>))

\* Whether some leading run of the path's segments, shorter than the path,
\* matches the pattern as a whole.
UnderMatchingDirectory(path, pattern) ==
    \E i \in 1..(Len(PathParts(path)) - 1) :
        WholePathMatches(JoinParts(SubSeq(PathParts(path), 1, i)), pattern)

\* C26: a directory rule, not anchored, with a "/" in its pattern excludes
\* that directory and everything under it at any depth: "docs/draft/"
\* excludes docs/draft/a.pdf and docs/draft/x/y/a.pdf and excludes neither
\* docs/final/b.pdf nor projects/draft/c.pdf.
C26_DirectoryPathRuleAtAnyDepth ==
    (answer # <<>> /\ OnlyRuleIs(TRUE, FALSE) /\ HasSlash(AskedRules[1].pattern)) =>
        /\ UnderMatchingDirectory(asked_path, AskedRules[1].pattern)
              => answer = <<TRUE>>
        /\ (asked_file = IgnoreDocsDraftDir =>
              /\ (asked_path = <<"d", "o", "c", "s", "/", "d", "r", "a", "f", "t", "/", "a", ".", "p", "d", "f">> => answer = <<TRUE>>)
              /\ (asked_path = <<"d", "o", "c", "s", "/", "d", "r", "a", "f", "t", "/", "x", "/", "y", "/", "a", ".", "p", "d", "f">> => answer = <<TRUE>>)
              /\ (asked_path = <<"d", "o", "c", "s", "/", "f", "i", "n", "a", "l", "/", "b", ".", "p", "d", "f">> => answer = <<FALSE>>)
              /\ (asked_path = <<"p", "r", "o", "j", "e", "c", "t", "s", "/", "d", "r", "a", "f", "t", "/", "c", ".", "p", "d", "f">> => answer = <<FALSE>>))

\* C27: a directory rule, not anchored, excludes a path only when its
\* pattern matches a leading run of segments shorter than the whole path,
\* never on the strength of the file's own last segment: "a.pdf/" does not
\* exclude the file a.pdf of the root.
C27_DirectoryRuleNeedsDirectoryBoundary ==
    (answer # <<>> /\ OnlyRuleIs(TRUE, FALSE)) =>
        /\ answer = <<TRUE>> =>
              \E i \in 1..(Len(AskedParts) - 1) :
                  match(JoinParts(SubSeq(AskedParts, 1, i)), AskedRules[1].pattern)
        /\ ((asked_file = IgnoreAPdfDir /\ asked_path = <<"a", ".", "p", "d", "f">>) => answer = <<FALSE>>)

\* The fields of a version text between its dots.
VersionFields(v) == Split(Strip(v), ".")

\* The text is of the form "<major>.<minor>" with integer parts.
WellFormedVersion(v) ==
    /\ v # NoneStr
    /\ Len(VersionFields(v)) = 2
    /\ IsIntLiteral(VersionFields(v)[1])
    /\ IsIntLiteral(VersionFields(v)[2])

\* "M.N" for integers M and N.
VersionText(major, minor) == IntToStr(major) \o <<".">> \o IntToStr(minor)

\* The version an Updated record gets when every text that is not of the
\* form "<major>.<minor>" counts as "1.0".
BumpedOrDefault(v) ==
    IF WellFormedVersion(v)
    THEN VersionText(PyInt(VersionFields(v)[1]), PyInt(VersionFields(v)[2]) + 1)
    ELSE <<"1", ".", "1">>

\* A pass that classifies the record of loc Updated reports and writes
\* new_version for it.
UpdatedTo(loc, new_version) ==
    (IsPass /\ HasKey(sheet, loc) /\ InList(scan_result'.updated_files, loc)) =>
        /\ ReportedOnceAs(scan_result', loc, Updated,
                          PyStr(Lookup(sheet, loc).Version), new_version)
        /\ (~dry_run' => Lookup(sheet', loc).Version = new_version)

\* C25: a record classified Updated whose version is absent or
\* not of the form "<major>.<minor>" with integer parts gets version "1.1";
\* a well-formed "M.N" becomes "M.(N+1)".
C25_MalformedVersionBecomesOneOne ==
    [][\A loc \in Locations :
          HasKey(sheet, loc) => UpdatedTo(loc, BumpedOrDefault(Lookup(sheet, loc).Version))
    ]_vars

RemovedByPass(loc) ==
    /\ IsPass
    /\ ~dry_run'
    /\ (InList(scan_result'.deleted_files, loc) \/ InList(scan_result'.ignored_files, loc))

\* C29: a record that a pass removes (Deleted under prune_missing, or
\* Ignored) leaves nothing behind, neither row nor stored fingerprint;
\* nothing but a pass that discovers the location brings a row back; and
\* the pass that discovers it again classifies it New and gives it a fresh
\* row: version 1.0, empty description, Date Found = Last Seen = that pass's
\* date, and the fingerprint found in that pass.
C29_RemovedThenFoundIsNew ==
    [][\A loc \in Locations :
          /\ RemovedByPass(loc) =>
                (~HasKey(sheet', loc) /\ ~HasKey(meta_sheet', loc))
          /\ (~HasKey(sheet, loc) /\ ~(IsPass /\ loc \in FoundLocs(found'))) =>
                (~HasKey(sheet', loc) /\ ~HasKey(meta_sheet', loc))
          /\ (~HasKey(sheet, loc) /\ IsPass /\ loc \in FoundLocs(found')) =>
                /\ ~HasKey(meta_sheet, loc)
                /\ ReportedOnceAs(scan_result', loc, New, NoneStr, InitialVersion)
                /\ (~dry_run' =>
                      /\ Lookup(sheet', loc) = Row(loc, <<>>, today', today', InitialVersion)
                      /\ \E i \in 1..Len(found') :
                            /\ found'[i].rel_location = loc
                            /\ MetaGet(meta_sheet', loc) = found'[i].sha256)
    ]_vars

\* C29's case: on the third pass, on day 2, a.pdf is found with no row to
\* its name and gets a fresh one, while the row of A.pdf, first found on
\* day 1, is carried on.
C29_Witness ==
    /\ passes = 3
    /\ ~dry_run
    /\ today = 2
    /\ scan_result.new_files = <<LocLowerA>>
    /\ Lookup(sheet, LocLowerA) = Row(LocLowerA, <<>>, 2, 2, InitialVersion)
    /\ HasKey(sheet, LocUpperA)
    /\ Lookup(sheet, LocUpperA).DateFound = 1

\* C30: whatever the rule file holds, every rule parsed from it has a
\* pattern that is not empty (the lines "!", "/" and "!/" give no rule), and
\* putting a path to the parsed rules never raises on an empty pattern.
C30_NoEmptyPatternNoRaise ==
    /\ \A i \in 1..Len(AskedRules) : AskedRules[i].pattern # <<>>
    /\ (asked_file.exists /\ asked_file.readable) =>
          \A l \in 1..Len(asked_file.lines) :
              asked_file.lines[l] \in {<<"!">>, <<"/">>, <<"!", "/">>}
                  => ParseIgnoreLine(asked_file.lines[l]) = <<>>
    /\ ~raised

====
